---- MODULE Spec2Model ----
(***************************************************************************)
(* Model of the veri-toplama backend HTTP handlers GET /get-location and   *)
(* POST /resolve (package main).  Every request is a goroutine of its own; *)
(* the calls to the upstream source, to the persistence layer and to the   *)
(* user repository are the points where requests interleave.               *)
(*                                                                         *)
(* Coordinates are degrees scaled by 10^6 (the six decimals that %f        *)
(* prints), so that they are integers.                                     *)
(***************************************************************************)
EXTENDS Integers, Sequences, FiniteSets, TLC

\* ------------------------------------------------------------------ bounds
MaxEntryID == 3   \* entry IDs are 1..MaxEntryID
MaxUpstreamID == 2 \* the upstream source serves the entry IDs 1..MaxUpstreamID
MaxPool == 3      \* longest upstream candidate list, requests served concurrently
MaxPoolSeq == 2   \* longest upstream candidate list, requests served one by one
MaxPoolFilter == 2 \* longest upstream candidate list of the filter specification
MaxRequests == 2  \* requests served in one behaviour

Reqs == {1, 2}    \* request goroutines that can be in flight together

EntryIDs == 1..MaxEntryID

\* --------------------------------------------------------------- constants
\* var cities: box = {box[0], box[1], box[2], box[3]} per city ID.
cities ==
  [c \in 1..10 |->
     CASE c = 1  -> <<36852702, 36872863, 36535570, 35884094>>
       [] c = 2  -> <<36210485, 36818618, 35842864, 35829849>>
       [] c = 3  -> <<36495937, 36649870, 36064120, 35474018>>
       [] c = 4  -> <<36509035, 36402143, 36479761, 36314748>>
       [] c = 5  -> <<36642347, 36323245, 36536297, 36029282>>
       [] c = 6  -> <<36116001, 36064700, 36062717, 35917719>>
       [] c = 7  -> <<38533487, 38780625, 37327567, 35454814>>
       [] c = 8  -> <<37354614, 38075589, 36854317, 36677258>>
       [] c = 9  -> <<39065058, 40013647, 37867984, 36687836>>
       [] c = 10 -> <<38160827, 39333623, 37442508, 37356084>>]

\* The city_id values requests carry: absent (0), a registered city, an
\* unregistered positive one.
CityIDs == {0, 1, 11}

\* The starting_at values requests carry: absent (0) or an epoch.
StartingAts == {0, 200}

Epochs == {100, 200}

\* Points around the box of city 1: its two corners (on the boundary) and one
\* point just outside each of the four bounds.
Points ==
  LET b == cities[1] IN
  { <<b[1], b[2]>>, <<b[3], b[4]>>,
    <<b[1] + 1, b[2]>>, <<b[1], b[2] + 1>>,
    <<b[3] - 1, b[4]>>, <<b[3], b[4] - 1>> }

Texts == {"t1", "t2"}

AuthKeys == {"", "key1", "unknown"}

\* Response bodies.
MsgAlreadyChecked == "this location is already checked"
MsgAdded == "Successfully added!"
\* err.Error() of each call that can fail.
ErrUnmarshal == "json.Unmarshal: error"
ErrGetAllLocations == "GetAllLocations: error"
ErrGetLocations == "GetLocations: error"
ErrGetSingleLocation == "GetSingleLocation: error"
ErrIsDuplicate == "IsDuplicate: error"
ErrIsResolved == "IsResolved: error"
ErrResolveLocation == "ResolveLocation: error"

\* ------------------------------------------------------------- data model
\* locationsRepository.Location as the handlers use it.
Location(id, loc, epoch) ==
  [EntryID |-> id, Loc |-> loc, Epoch |-> epoch,
   OriginalMessage |-> "", OriginalLocation |-> <<>>]

\* Upstream candidates of the filter specification: every point at every epoch.
FilterCandidates == { Location(1, p, e) : p \in Points, e \in Epochs }

\* Upstream candidates otherwise: one location per entry ID (odd IDs on the
\* corner of box 1 at epoch 100, even ones just outside it at epoch 200).
CandidateOf(id) ==
  LET b == cities[1] IN
  IF id % 2 = 1 THEN Location(id, <<b[1], b[2]>>, 100)
                ELSE Location(id, <<b[1] + 1, b[2]>>, 200)

Candidates == { CandidateOf(id) : id \in 1..MaxUpstreamID }

SeqsUpTo(S, n) == UNION { [1..k -> S] : k \in 0..n }

\* fmt.Sprintf("https://www.google.com/maps/?q=%f,%f&ll=%f,%f&z=21", ...)
MapsURL(loc) ==
  <<"https://www.google.com/maps/?q=", loc[1], ",", loc[2],
    "&ll=", loc[1], ",", loc[2], "&z=21">>

\* tools.GetSingleLocation: the full text behind an entry ID.
FullTextOf(id) == IF id % 2 = 1 THEN "t1" ELSE "t2"

\* userRepository.GetUser: the user of an Auth-Key, none for an unknown key.
GetUser(authKey) ==
  IF authKey = "key1" THEN <<[Name |-> "user1", PermLevel |-> 1]>> ELSE <<>>

\* locationRepository.IsResolved
IsResolved(records, id) == \E i \in 1..Len(records) : records[i].EntryID = id

\* locationRepository.IsDuplicate
IsDuplicate(records, fullText) ==
  \E i \in 1..Len(records) : records[i].TweetContents = fullText

\* -------------------------------------------------- GET /get-location steps
\* One pass of `for i, loc := range locations` for one resolved entry.  The
\* range walks the slice header taken when the pass starts (arr, all of its
\* Len(arr) slots) while append(locations[:i], locations[i+1:]...) shifts the
\* shared backing array and shortens locations (n); i is the 1-based range
\* position.  locations[i+1:] panics when i+1 exceeds len(locations).
RECURSIVE InnerRange(_, _, _, _)
InnerRange(arr, n, i, id) ==
  IF i > Len(arr)
  THEN [panic |-> FALSE, locations |-> SubSeq(arr, 1, n)]
  ELSE IF arr[i].EntryID = id
       THEN IF i > n
            THEN [panic |-> TRUE, locations |-> <<>>]
            ELSE InnerRange(SubSeq(arr, 1, i - 1) \o SubSeq(arr, i + 1, n)
                              \o SubSeq(arr, n, Len(arr)),
                            n - 1, i + 1, id)
       ELSE InnerRange(arr, n, i + 1, id)

\* for _, l := range locs { ...inner pass... }
RECURSIVE RemoveResolved(_, _, _)
RemoveResolved(locs, k, locations) ==
  IF k > Len(locs)
  THEN [panic |-> FALSE, locations |-> locations]
  ELSE LET pass == InnerRange(locations, Len(locations), 1, locs[k].EntryID) IN
       IF pass.panic THEN pass
       ELSE RemoveResolved(locs, k + 1, pass.locations)

\* The city filter with the bounds excluded (> and < for >= and <=).
InBoxExclusive(box, loc) ==
  box[1] > loc.Loc[1] /\ box[2] > loc.Loc[2] /\ box[3] < loc.Loc[1] /\ box[4] < loc.Loc[2]

\* The condition of the city filter.
InBox(box, loc) ==
  box[1] >= loc.Loc[1] /\ box[2] >= loc.Loc[2] /\ box[3] <= loc.Loc[1] /\ box[4] <= loc.Loc[2]

RECURSIVE BoxLoop(_, _, _, _)
BoxLoop(box, locations, i, filteredLocations) ==
  IF i > Len(locations) THEN filteredLocations
  ELSE BoxLoop(box, locations, i + 1,
               IF InBox(box, locations[i])
               THEN Append(filteredLocations, locations[i])
               ELSE filteredLocations)

\* cityID := c.QueryInt("city_id"); if cityID > 0 { box := cities[cityID] ... }
\* cities[cityID] of an unregistered city is the nil slice: box[0] panics on
\* the first candidate.
CityFilter(cityID, locations) ==
  IF cityID > 0
  THEN IF cityID \in DOMAIN cities
       THEN [panic |-> FALSE, locations |-> BoxLoop(cities[cityID], locations, 1, <<>>)]
       ELSE IF Len(locations) > 0
            THEN [panic |-> TRUE, locations |-> <<>>]
            ELSE [panic |-> FALSE, locations |-> <<>>]
  ELSE [panic |-> FALSE, locations |-> locations]

\* The starting_at filter with the bound excluded (> for >=).
NotBeforeStrict(startingAt, loc) == loc.Epoch > startingAt

\* The condition of the starting_at filter.
NotBefore(startingAt, loc) == loc.Epoch >= startingAt

RECURSIVE EpochLoop(_, _, _, _)
EpochLoop(startingAt, locations, i, filteredLocations) ==
  IF i > Len(locations) THEN filteredLocations
  ELSE EpochLoop(startingAt, locations, i + 1,
                 IF NotBefore(startingAt, locations[i])
                 THEN Append(filteredLocations, locations[i])
                 ELSE filteredLocations)

\* startingAt := c.QueryInt("starting_at"); if startingAt > 0 { ... }
StartingAtFilter(startingAt, locations) ==
  IF startingAt > 0 THEN EpochLoop(startingAt, locations, 1, <<>>) ELSE locations

\* The in-loop check `for _, i := range processed { if randIndex == i { continue } }`:
\* the continue belongs to the inner for, so a visited index is never skipped.
SkipVisited(processed, randIndex) == FALSE

\* The end of the sampling loop tested one turn late (> for ==).
PoolExhaustedLate(processed, locations) == Len(processed) > Len(locations)

\* if len(processed) == len(locations) { return no result }
PoolExhausted(processed, locations) == Len(processed) = Len(locations)

\* selected.OriginalMessage = fullText; selected.OriginalLocation = Sprintf(...)
Enrich(selected, fullText) ==
  [selected EXCEPT !.OriginalMessage = fullText, !.OriginalLocation = MapsURL(selected.Loc)]

\* ------------------------------------------------------ POST /resolve steps
\* for _, loc := range locations { if loc.EntryID == body.ID { ... } }
RECURSIVE LookupLoop(_, _, _, _)
LookupLoop(locations, i, id, found) ==
  IF i > Len(locations) THEN found
  ELSE LookupLoop(locations, i + 1, id,
                  IF locations[i].EntryID = id
                  THEN [originalLocation |-> MapsURL(locations[i].Loc),
                        location |-> locations[i].Loc]
                  ELSE found)

\* The lookup without the `loc.EntryID == body.ID` test: the last candidate
\* of the list is taken.
LookupLocationAny(locations, id) ==
  IF Len(locations) = 0
  THEN [originalLocation |-> <<>>, location |-> <<>>]
  ELSE [originalLocation |-> MapsURL(locations[Len(locations)].Loc),
        location |-> locations[Len(locations)].Loc]

LookupLocation(locations, id) ==
  LookupLoop(locations, 1, id, [originalLocation |-> <<>>, location |-> <<>>])

\* &locationsRepository.LocationDB{...}: the fields the handlers read back.
LocationDB(body, found, sender) ==
  [EntryID |-> body.ID, Location |-> found.location,
   OriginalAddress |-> found.originalLocation, Sender |-> sender,
   TweetContents |-> body.TweetContents]

\* locationRepository.ResolveLocation: one inserted document.
ResolveLocation(records, record) == Append(records, record)

\* ------------------------------------------------------------------- state
VARIABLES
  upstream,  \* the candidate list the upstream source serves
  db,        \* the stored resolution records, in insertion order
  req,       \* the request of every goroutine
  started,   \* requests started so far
  crashed    \* a handler panicked: the process is gone

vars == <<upstream, db, req, started, crashed>>

NoBody == [ID |-> 0, TweetContents |-> ""]
NoFound == [originalLocation |-> <<>>, location |-> <<>>]
NoResult == [type |-> "none", count |-> 0, location |-> <<>>, msg |-> ""]
JSONResult(count, location) == [type |-> "json", count |-> count, location |-> location, msg |-> ""]
TextResult(msg) == [type |-> "text", count |-> 0, location |-> <<>>, msg |-> msg]
PanicResult == [type |-> "panic", count |-> 0, location |-> <<>>, msg |-> ""]

ResolvedIDs(records) == { records[i].EntryID : i \in 1..Len(records) }

Idle ==
  [kind |-> "none", pc |-> "idle",
   recordsAtStart |-> <<>>, \* the stored records when the request arrived
   cityID |-> 0, startingAt |-> 0,
   locsIDs |-> {},          \* entry IDs of the records GetLocations returned
   filtered |-> FALSE,      \* the three filters have run
   fetchedAll |-> <<>>,     \* the list GetAllLocations returned
   afterResolved |-> <<>>,  \* locations after the resolved entries are removed
   afterCity |-> <<>>,      \* locations after the city filter
   locations |-> <<>>,      \* locations after the starting_at filter: the pool
   allDup |-> FALSE,        \* every full text of the pool was stored already
   processed |-> <<>>,      \* the indices sampled so far (0-based)
   fetched |-> <<>>,        \* entry IDs whose detail was fetched
   checked |-> <<>>,        \* the duplicate checks made: text and answer
   singleData |-> "",
   body |-> NoBody, found |-> NoFound, sender |-> <<>>,
   wrote |-> 0,             \* records this request inserted
   calls |-> <<>>,          \* the collaborator calls made, each with its outcome
   result |-> NoResult]

Init ==
  /\ upstream \in SeqsUpTo(Candidates, MaxPool)
  /\ db = <<>>
  /\ req = [r \in Reqs |-> Idle]
  /\ started = 0
  /\ crashed = FALSE

InitSeq ==
  /\ upstream \in SeqsUpTo(Candidates, MaxPoolSeq)
  /\ db = <<>>
  /\ req = [r \in Reqs |-> Idle]
  /\ started = 0
  /\ crashed = FALSE

InitFilter ==
  /\ upstream \in SeqsUpTo(FilterCandidates, MaxPoolFilter)
  /\ db = <<>>
  /\ req = [r \in Reqs |-> Idle]
  /\ started = 0
  /\ crashed = FALSE

\* rec after one more collaborator call: its name and "ok", "error", "true"
\* or "false".
Called(rec, name, outcome) == [rec EXCEPT !.calls = Append(@, <<name, outcome>>)]

At(r, kind, pc) == ~crashed /\ req[r].kind = kind /\ req[r].pc = pc

Respond(r, rec, result) ==
  req' = [req EXCEPT ![r] = [rec EXCEPT !.pc = "done", !.result = result]]

\* ------------------------------------------------------- GET /get-location
GetLocationArrives(r) ==
  /\ At(r, "none", "idle")
  /\ started < MaxRequests
  /\ started' = started + 1
  /\ req' = [req EXCEPT ![r] = [Idle EXCEPT !.kind = "get", !.pc = "getAll",
                                           !.recordsAtStart = db]]
  /\ UNCHANGED <<upstream, db, crashed>>

\* locations, err := tools.GetAllLocations(ctx, cache)
GetAllLocations(r) ==
  /\ At(r, "get", "getAll")
  /\ \/ Respond(r, Called(req[r], "GetAllLocations", "error"), TextResult(ErrGetAllLocations))
     \/ req' = [req EXCEPT ![r] = [Called(req[r], "GetAllLocations", "ok") EXCEPT
                                     !.pc = "getLocs", !.fetchedAll = upstream]]
  /\ UNCHANGED <<upstream, db, started, crashed>>

\* locs, err := locationRepository.GetLocations(ctx), then the three filters
\* and the empty-pool answer: everything up to the sampling loop.
FilterOutcome(r, cityID, startingAt) ==
  LET removed == RemoveResolved(db, 1, req[r].fetchedAll)
      boxed   == CityFilter(cityID, removed.locations)
      pool    == StartingAtFilter(startingAt, boxed.locations)
      rec     == [Called(req[r], "GetLocations", "ok") EXCEPT
                    !.cityID = cityID, !.startingAt = startingAt,
                    !.locsIDs = ResolvedIDs(db)]
  IN
  IF removed.panic
  THEN [panic |-> TRUE, rec |-> rec]
  ELSE IF boxed.panic
       THEN [panic |-> TRUE, rec |-> [rec EXCEPT !.afterResolved = removed.locations]]
       ELSE [panic |-> FALSE,
             rec |-> [rec EXCEPT !.filtered = TRUE,
                                 !.afterResolved = removed.locations,
                                 !.afterCity = boxed.locations,
                                 !.locations = pool,
                                 !.allDup = \A i \in 1..Len(pool) :
                                              IsDuplicate(db, FullTextOf(pool[i].EntryID))]]

\* The empty pool never answered (the test of line 148 dropped).
PoolEmptyNever(locations) == FALSE

\* if len(locations) == 0 { return no result }
PoolEmpty(locations) == Len(locations) = 0

GetLocationsAndFilter(r) ==
  /\ At(r, "get", "getLocs")
  /\ \/ /\ Respond(r, Called(req[r], "GetLocations", "error"), TextResult(ErrGetLocations))
        /\ UNCHANGED crashed
     \/ \E cityID \in CityIDs, startingAt \in StartingAts :
          LET out == FilterOutcome(r, cityID, startingAt) IN
          IF out.panic  \* not recovered: the process ends
          THEN /\ req' = [req EXCEPT ![r] = [out.rec EXCEPT !.pc = "done", !.result = PanicResult]]
               /\ crashed' = TRUE
          ELSE /\ IF PoolEmpty(out.rec.locations)
                  THEN Respond(r, out.rec, JSONResult(0, <<>>))
                  ELSE req' = [req EXCEPT ![r] = [out.rec EXCEPT !.pc = "sample"]]
               /\ UNCHANGED crashed
  /\ UNCHANGED <<upstream, db, started>>

\* One turn of the sampling loop up to s := locations[randIndex].
Sample(r) ==
  /\ At(r, "get", "sample")
  /\ \E randIndex \in 0..(Len(req[r].locations) - 1) :
       IF PoolExhausted(req[r].processed, req[r].locations)
       THEN Respond(r, req[r], JSONResult(0, <<>>))
       ELSE IF SkipVisited(req[r].processed, randIndex)
            THEN UNCHANGED req
            ELSE req' = [req EXCEPT ![r].pc = "fetch",
                                    ![r].processed = Append(@, randIndex)]
  /\ UNCHANGED <<upstream, db, started, crashed>>

\* The candidate sampled last.
Sampled(rec) == rec.locations[rec.processed[Len(rec.processed)] + 1]

\* The detail fetch with a failed fetch retried: the loop samples again
\* instead of returning the error.
GetSingleLocationRetry(r) ==
  /\ ~crashed /\ req[r].kind = "get" /\ req[r].pc = "fetch"
  /\ \/ req' = [req EXCEPT ![r] = [Called(req[r], "GetSingleLocation", "error") EXCEPT
                                     !.pc = "sample",
                                     !.fetched = Append(@, Sampled(req[r]).EntryID)]]
     \/ req' = [req EXCEPT ![r] = [Called(req[r], "GetSingleLocation", "ok") EXCEPT
                                     !.pc = "dup",
                                     !.fetched = Append(@, Sampled(req[r]).EntryID),
                                     !.singleData = FullTextOf(Sampled(req[r]).EntryID)]]
  /\ UNCHANGED <<upstream, db, started, crashed>>

\* singleData, err := tools.GetSingleLocation(ctx, s.EntryID, cache)
GetSingleLocation(r) ==
  /\ At(r, "get", "fetch")
  /\ \/ Respond(r, [Called(req[r], "GetSingleLocation", "error") EXCEPT
                      !.fetched = Append(@, Sampled(req[r]).EntryID)],
                TextResult(ErrGetSingleLocation))
     \/ req' = [req EXCEPT ![r] = [Called(req[r], "GetSingleLocation", "ok") EXCEPT
                                     !.pc = "dup",
                                     !.fetched = Append(@, Sampled(req[r]).EntryID),
                                     !.singleData = FullTextOf(Sampled(req[r]).EntryID)]]
  /\ UNCHANGED <<upstream, db, started, crashed>>

\* exists, err := locationRepository.IsDuplicate(...); if !exists { accept }
CheckDuplicate(r) ==
  /\ At(r, "get", "dup")
  /\ \/ Respond(r, Called(req[r], "IsDuplicate", "error"), TextResult(ErrIsDuplicate))
     \/ LET exists == IsDuplicate(db, req[r].singleData)
            rec == [Called(req[r], "IsDuplicate", IF exists THEN "true" ELSE "false")
                      EXCEPT !.checked =
                        Append(@, [text |-> req[r].singleData, exists |-> exists])]
        IN IF ~exists
           THEN Respond(r, rec, JSONResult(Len(rec.locations),
                                           <<Enrich(Sampled(rec), rec.singleData)>>))
           ELSE req' = [req EXCEPT ![r] = [rec EXCEPT !.pc = "sample"]]
  /\ UNCHANGED <<upstream, db, started, crashed>>

\* ------------------------------------------------------------ POST /resolve
\* json.Unmarshal(c.Body(), body): a body that parses, or an error.
ResolveArrives(r) ==
  /\ At(r, "none", "idle")
  /\ started < MaxRequests
  /\ started' = started + 1
  /\ \/ \E id \in EntryIDs, text \in Texts :
          req' = [req EXCEPT ![r] = [Idle EXCEPT !.kind = "resolve", !.pc = "isResolved",
                                                !.recordsAtStart = db,
                                                !.body = [ID |-> id, TweetContents |-> text]]]
     \/ Respond(r, [Idle EXCEPT !.kind = "resolve", !.recordsAtStart = db],
                TextResult(ErrUnmarshal))
  /\ UNCHANGED <<upstream, db, crashed>>

\* The resolve handler without the `if exists` rejection.
CheckResolvedNoReject(r) ==
  /\ ~crashed /\ req[r].kind = "resolve" /\ req[r].pc = "isResolved"
  /\ \/ Respond(r, Called(req[r], "IsResolved", "error"), TextResult(ErrIsResolved))
     \/ req' = [req EXCEPT ![r] = [Called(req[r], "IsResolved",
                                            IF IsResolved(db, req[r].body.ID)
                                            THEN "true" ELSE "false")
                                     EXCEPT !.pc = "resolveGetAll"]]
  /\ UNCHANGED <<upstream, db, started, crashed>>

\* exists, err := locationRepository.IsResolved(ctx, body.ID)
CheckResolved(r) ==
  /\ At(r, "resolve", "isResolved")
  /\ \/ Respond(r, Called(req[r], "IsResolved", "error"), TextResult(ErrIsResolved))
     \/ IF IsResolved(db, req[r].body.ID)
        THEN Respond(r, Called(req[r], "IsResolved", "true"), TextResult(MsgAlreadyChecked))
        ELSE req' = [req EXCEPT ![r] = [Called(req[r], "IsResolved", "false") EXCEPT
                                          !.pc = "resolveGetAll"]]
  /\ UNCHANGED <<upstream, db, started, crashed>>

\* The resolve handler going on after a failed candidate-list fetch (the
\* `if err != nil` return dropped): nothing is found.
ResolveGetAllLocationsIgnoreError(r) ==
  /\ ~crashed /\ req[r].kind = "resolve" /\ req[r].pc = "resolveGetAll"
  /\ \/ req' = [req EXCEPT ![r] = [Called(req[r], "GetAllLocations", "error") EXCEPT
                                     !.pc = "getUser"]]
     \/ req' = [req EXCEPT ![r] = [Called(req[r], "GetAllLocations", "ok") EXCEPT
                                     !.pc = "getUser",
                                     !.found = LookupLocation(upstream, req[r].body.ID)]]
  /\ UNCHANGED <<upstream, db, started, crashed>>

\* locations, err := tools.GetAllLocations(ctx, cache), then the lookup loop.
ResolveGetAllLocations(r) ==
  /\ At(r, "resolve", "resolveGetAll")
  /\ \/ Respond(r, Called(req[r], "GetAllLocations", "error"), TextResult(ErrGetAllLocations))
     \/ req' = [req EXCEPT ![r] = [Called(req[r], "GetAllLocations", "ok") EXCEPT
                                     !.pc = "getUser",
                                     !.found = LookupLocation(upstream, req[r].body.ID)]]
  /\ UNCHANGED <<upstream, db, started, crashed>>

\* userData, err := userRepository.GetUser(c.Context(), authKey)
\* The sender lookup as a required step: a failed GetUser answers with the
\* error and ends the request.
ResolveGetUserRequired(r) ==
  /\ At(r, "resolve", "getUser")
  /\ \E authKey \in AuthKeys :
       LET userData == GetUser(authKey)
       IN req' = [req EXCEPT ![r] =
                    IF userData = <<>>
                    THEN [Called(req[r], "GetUser", "error")
                            EXCEPT !.pc = "done", !.result = TextResult("getUser error")]
                    ELSE [Called(req[r], "GetUser", "ok")
                            EXCEPT !.pc = "write", !.sender = userData]]
  /\ UNCHANGED <<upstream, db, started, crashed>>

ResolveGetUser(r) ==
  /\ At(r, "resolve", "getUser")
  /\ \E authKey \in AuthKeys :
       LET userData == GetUser(authKey)  \* <<>>: err != nil
       IN req' = [req EXCEPT ![r] = [Called(req[r], "GetUser",
                                            IF userData = <<>> THEN "error" ELSE "ok")
                                       EXCEPT !.pc = "write", !.sender = userData]]
  /\ UNCHANGED <<upstream, db, started, crashed>>

\* locationRepository.ResolveLocation(ctx, &LocationDB{...})
ResolveWrite(r) ==
  /\ At(r, "resolve", "write")
  /\ \/ /\ Respond(r, Called(req[r], "ResolveLocation", "error"), TextResult(ErrResolveLocation))
        /\ UNCHANGED db
     \/ /\ db' = ResolveLocation(db, LocationDB(req[r].body, req[r].found, req[r].sender))
        /\ Respond(r, [Called(req[r], "ResolveLocation", "ok") EXCEPT !.wrote = @ + 1],
                   TextResult(MsgAdded))
  /\ UNCHANGED <<upstream, started, crashed>>

\* The response is sent and the goroutine is free for the next request.
RequestEnds(r) ==
  /\ ~crashed
  /\ req[r].pc = "done"
  /\ req' = [req EXCEPT ![r] = Idle]
  /\ UNCHANGED <<upstream, db, started, crashed>>

GetLocationStep(r) ==
  \/ GetLocationArrives(r)
  \/ GetAllLocations(r)
  \/ GetLocationsAndFilter(r)
  \/ Sample(r)
  \/ GetSingleLocation(r)
  \/ CheckDuplicate(r)
  \/ RequestEnds(r)

Step(r) ==
  \/ GetLocationStep(r)
  \/ ResolveArrives(r)
  \/ CheckResolved(r)
  \/ ResolveGetAllLocations(r)
  \/ ResolveGetUser(r)
  \/ ResolveWrite(r)

Next == \E r \in Reqs : Step(r)

\* One request at a time.
NextSeq == Step(1)

\* One get-location request at a time, nothing resolved.
NextFilter == GetLocationStep(1)

\* Requests served concurrently.
Spec == Init /\ [][Next]_vars

\* Requests served one after the other.
SpecSeq == InitSeq /\ [][NextSeq]_vars

\* The filters of get-location on every candidate list.
SpecFilter == InitFilter /\ [][NextFilter]_vars

\* ================================================================== claims
RecordsOf(records, e) == { i \in 1..Len(records) : records[i].EntryID = e }

Get(r) == req[r].kind = "get"
Resolve(r) == req[r].kind = "resolve"
Done(r) == req[r].pc = "done"

\* The request answered with the JSON body {count, location}.
AnsweredJSON(r) == Done(r) /\ req[r].result.type = "json"

\* The resolve request r found body.ID resolved already when it arrived.
ArrivedAfterResolve(r) ==
  Resolve(r) /\ req[r].body.ID \in ResolvedIDs(req[r].recordsAtStart)

\* The error texts a resolve request can be answered with.
ResolveErrors == {ErrUnmarshal, ErrIsResolved, ErrGetAllLocations, ErrResolveLocation}

\* C1: whatever the interleaving of the POST /resolve requests for one
\* entryID, at most one ResolutionRecord of that entryID is ever stored; one
\* request is answered "Successfully added!" and every other one that meets
\* no error is answered with the already-resolved rejection.
C1_OneRecordPerEntry ==
  /\ \A e \in EntryIDs : Cardinality(RecordsOf(db, e)) <= 1
  /\ \A r1, r2 \in Reqs :
       ( /\ r1 # r2 /\ Resolve(r1) /\ Resolve(r2) /\ Done(r1) /\ Done(r2)
         /\ req[r1].body.ID = req[r2].body.ID
         /\ req[r1].result.msg = MsgAdded
         /\ req[r2].result.msg \notin ResolveErrors )
       => req[r2].result.msg = MsgAlreadyChecked

\* C2: a resolve of entryID e that arrives after a resolve of e succeeded,
\* and whose isResolved lookup answers, is rejected with "this location is
\* already checked"; it never gets past the lookup, writes nothing, and the
\* records stored when it arrived are still stored, unchanged.
C2_LaterResolveRejected ==
  \A r \in Reqs :
    ArrivedAfterResolve(r) =>
      /\ req[r].pc \in {"isResolved", "done"}
      /\ req[r].wrote = 0
      /\ Len(db) >= Len(req[r].recordsAtStart)
      /\ SubSeq(db, 1, Len(req[r].recordsAtStart)) = req[r].recordsAtStart
      /\ Done(r) => /\ req[r].result.type = "text"
                    /\ req[r].result.msg \in {MsgAlreadyChecked, ErrIsResolved}
                    /\ db = req[r].recordsAtStart

\* C2 witness: a resolve that arrived after the entry was resolved was
\* answered with the already-resolved message.
C2_Witness ==
  \E r \in Reqs :
    /\ ArrivedAfterResolve(r) /\ Done(r)
    /\ req[r].result.msg = MsgAlreadyChecked
    /\ Cardinality(RecordsOf(db, req[r].body.ID)) = 1

\* C3: step 1 of get-location removes every candidate whose entryID is in the
\* resolved set it read, so the pool of a request holds no entry that was
\* resolved when the request arrived, and neither does its answer.
C3_ResolvedNeverOffered ==
  \A r \in Reqs :
    (Get(r) /\ req[r].filtered) =>
      /\ \A i \in 1..Len(req[r].afterResolved) :
           req[r].afterResolved[i].EntryID \notin req[r].locsIDs
      /\ \A i \in 1..Len(req[r].locations) :
           req[r].locations[i].EntryID \notin ResolvedIDs(req[r].recordsAtStart)
      /\ \A i \in 1..Len(req[r].result.location) :
           req[r].result.location[i].EntryID \notin ResolvedIDs(req[r].recordsAtStart)

\* C4: the sampling loop never makes more turns than the pool has candidates;
\* on a non-empty pool of N candidates whose full texts are all duplicates a
\* request that meets no error ends after exactly N detail fetches and N
\* duplicate checks with {count: 0, location: null}.
C4_AllDuplicatesTerminates ==
  \A r \in Reqs :
    Get(r) =>
      /\ Len(req[r].processed) <= Len(req[r].locations)
      /\ Len(req[r].fetched) <= Len(req[r].locations)
      /\ Len(req[r].checked) <= Len(req[r].locations)
      /\ (AnsweredJSON(r) /\ req[r].allDup /\ Len(req[r].locations) > 0) =>
           /\ req[r].result = JSONResult(0, <<>>)
           /\ Len(req[r].fetched) = Len(req[r].locations)
           /\ Len(req[r].checked) = Len(req[r].locations)

\* C4 witness: a pool of two or more candidates, all duplicates, was sampled
\* to the end and answered with the empty result.
C4_Witness ==
  \E r \in Reqs :
    /\ Get(r) /\ AnsweredJSON(r) /\ req[r].allDup
    /\ Len(req[r].locations) >= 2
    /\ Len(req[r].checked) = Len(req[r].locations)
    /\ req[r].result = JSONResult(0, <<>>)

\* C5: within one get-location request no pool index is sampled twice: the
\* visited collection holds every index at most once, so no candidate has its
\* detail fetched or its duplicate check run twice.
C5_SampledWithoutReplacement ==
  \A r \in Reqs :
    Get(r) =>
      \A i, j \in 1..Len(req[r].processed) :
        i # j => req[r].processed[i] # req[r].processed[j]

\* C6: with a non-empty pool and no collaborator error, get-location answers
\* "no result" only when every index of the pool was examined and found
\* duplicate: a pool with a non-duplicate candidate yields a location.
C6_NoResultOnlyWhenExhausted ==
  \A r \in Reqs :
    ( /\ Get(r) /\ AnsweredJSON(r) /\ Len(req[r].locations) > 0
      /\ req[r].result.location = <<>> )
    => /\ req[r].allDup
       /\ \A idx \in 0..(Len(req[r].locations) - 1) :
            \E k \in 1..Len(req[r].processed) : req[r].processed[k] = idx

\* The box of the spec: both axes, bounds included.
WithinBox(box, l) ==
  /\ box[3] <= l.Loc[1] /\ l.Loc[1] <= box[1]
  /\ box[4] <= l.Loc[2] /\ l.Loc[2] <= box[2]

OnBoundary(box, l) ==
  WithinBox(box, l) /\ (l.Loc[1] \in {box[1], box[3]} \/ l.Loc[2] \in {box[2], box[4]})

\* C7: for a registered city the city filter keeps exactly the candidates
\* with box[2] <= coordinate0 <= box[0] and box[3] <= coordinate1 <= box[1],
\* bounds included, in their order.
C7_CityFilterInclusive ==
  \A r \in Reqs :
    (Get(r) /\ req[r].filtered /\ req[r].cityID \in DOMAIN cities) =>
      req[r].afterCity =
        SelectSeq(req[r].afterResolved, LAMBDA l : WithinBox(cities[req[r].cityID], l))

\* C7 witness: the filter of a registered city kept a candidate that lies on
\* the boundary of the box and dropped another one.
C7_Witness ==
  \E r \in Reqs :
    /\ Get(r) /\ req[r].filtered /\ req[r].cityID \in DOMAIN cities
    /\ Len(req[r].afterCity) < Len(req[r].afterResolved)
    /\ \E i \in 1..Len(req[r].afterCity) :
         OnBoundary(cities[req[r].cityID], req[r].afterCity[i])

\* C8: a get-location request whose city_id is positive but not registered
\* skips the city filter and completes with a normal response, its pool
\* unchanged by step 2.
C8_UnknownCitySkipsFilter ==
  \A r \in Reqs :
    ( /\ Get(r) /\ Done(r)
      /\ req[r].cityID > 0 /\ req[r].cityID \notin DOMAIN cities
      /\ req[r].result.type # "text" )
    => /\ req[r].result.type = "json"
       /\ req[r].afterCity = req[r].afterResolved

\* C9: with starting_at = 0 the starting_at filter leaves the pool as it is;
\* with starting_at = T > 0 it keeps exactly the candidates with epoch >= T,
\* in their order, and no candidate with epoch < T is returned or counted.
C9_StartingAtFilter ==
  \A r \in Reqs :
    (Get(r) /\ req[r].filtered) =>
      /\ req[r].startingAt = 0 => req[r].locations = req[r].afterCity
      /\ req[r].startingAt > 0 =>
           /\ req[r].locations =
                SelectSeq(req[r].afterCity, LAMBDA l : l.Epoch >= req[r].startingAt)
           /\ \A i \in 1..Len(req[r].result.location) :
                req[r].result.location[i].Epoch >= req[r].startingAt
           /\ req[r].result.count <=
                Len(SelectSeq(req[r].afterCity, LAMBDA l : l.Epoch >= req[r].startingAt))

\* C9 witness: a filter with starting_at = T > 0 kept a candidate of epoch T
\* and dropped an earlier one.
C9_Witness ==
  \E r \in Reqs :
    /\ Get(r) /\ req[r].filtered /\ req[r].startingAt > 0
    /\ Len(req[r].locations) < Len(req[r].afterCity)
    /\ \E i \in 1..Len(req[r].locations) :
         req[r].locations[i].Epoch = req[r].startingAt

\* The filtered pool as the spec defines it: the candidates fetched that are
\* unresolved, inside the box when a city is given, not before starting_at
\* when it is given.
SpecPool(rec) ==
  SelectSeq(rec.fetchedAll,
            LAMBDA l : /\ l.EntryID \notin rec.locsIDs
                       /\ rec.cityID \in DOMAIN cities => WithinBox(cities[rec.cityID], l)
                       /\ rec.startingAt > 0 => l.Epoch >= rec.startingAt)

\* C10: a get-location that returns a location returns count = the size of
\* the filtered pool and a location of that pool, whose full text was
\* reported as no duplicate in this request and is its originalMessage.
C10_SuccessResponse ==
  \A r \in Reqs :
    (Get(r) /\ AnsweredJSON(r) /\ req[r].result.location # <<>>) =>
      LET loc == req[r].result.location[1]
          pool == SpecPool(req[r])
      IN /\ req[r].result.count = Len(pool)
         /\ \E i \in 1..Len(pool) :
              loc = Enrich(pool[i], FullTextOf(pool[i].EntryID))
         /\ \E k \in 1..Len(req[r].checked) :
              /\ req[r].checked[k].text = loc.OriginalMessage
              /\ ~req[r].checked[k].exists
         /\ loc.OriginalMessage = FullTextOf(loc.EntryID)

\* C11: when the pool is empty after the filters, get-location answers
\* {count: 0, location: null}, a normal result, at once: it samples nothing,
\* fetches no detail and runs no duplicate check.
C11_EmptyPoolNoResult ==
  \A r \in Reqs :
    (Get(r) /\ req[r].filtered /\ Len(req[r].locations) = 0) =>
      /\ Done(r)
      /\ req[r].result = JSONResult(0, <<>>)
      /\ req[r].processed = <<>>
      /\ req[r].fetched = <<>>
      /\ req[r].checked = <<>>
      /\ req[r].calls = <<<<"GetAllLocations", "ok">>, <<"GetLocations", "ok">>>>

\* C11 witness: candidates were fetched, the filters left none, and the
\* request was answered with the empty result.
C11_Witness ==
  \E r \in Reqs :
    /\ Get(r) /\ req[r].filtered /\ Done(r)
    /\ Len(req[r].fetchedAll) > 0 /\ Len(req[r].locations) = 0
    /\ req[r].result = JSONResult(0, <<>>)

\* err.Error() of a failed call.
ErrorOf(name) ==
  CASE name = "GetAllLocations" -> ErrGetAllLocations
    [] name = "GetLocations" -> ErrGetLocations
    [] name = "GetSingleLocation" -> ErrGetSingleLocation
    [] name = "IsDuplicate" -> ErrIsDuplicate
    [] name = "IsResolved" -> ErrIsResolved
    [] name = "ResolveLocation" -> ErrResolveLocation
    [] OTHER -> ""

\* The pool indices (0-based) request rec never sampled whose full text is
\* not stored.
UntriedNonDuplicates(rec) ==
  { i \in 0..(Len(rec.locations) - 1) :
      /\ \A k \in 1..Len(rec.processed) : rec.processed[k] # i
      /\ ~IsDuplicate(db, FullTextOf(rec.locations[i + 1].EntryID)) }

\* C12: get-location retries nothing.  A call of the request that returns an
\* error (the candidate list, the resolved set, a sampled candidate's detail,
\* the duplicate check) is its last call: the request ends with that error's
\* message as its body and no location, and a request answered with a bare
\* message is one whose last call failed.
C12_NoRetryOnFailure ==
  \A r \in Reqs :
    Get(r) =>
      /\ \A k \in 1..Len(req[r].calls) :
           req[r].calls[k][2] = "error" =>
             /\ k = Len(req[r].calls)
             /\ Done(r)
             /\ req[r].result = TextResult(ErrorOf(req[r].calls[k][1]))
      /\ (Done(r) /\ req[r].result.type = "text") =>
           /\ req[r].calls # <<>>
           /\ req[r].calls[Len(req[r].calls)][2] = "error"
           /\ req[r].result.location = <<>>
      /\ Cardinality({ k \in 1..Len(req[r].calls) : req[r].calls[k][1] = "GetSingleLocation" })
           = Len(req[r].fetched)

\* C12 witness: a request ended with the error of a detail fetch or of a
\* duplicate check while a non-duplicate candidate of its pool was untried.
C12_Witness ==
  \E r \in Reqs :
    /\ Get(r) /\ Done(r)
    /\ req[r].result.msg \in {ErrGetSingleLocation, ErrIsDuplicate}
    /\ UntriedNonDuplicates(req[r]) # {}

\* The resolve request r ended before the write: its body did not parse, or
\* its last call is an isResolved that failed or answered true, or a
\* candidate-list fetch that failed.
EndedBeforeWrite(r) ==
  /\ Resolve(r) /\ Done(r)
  /\ \/ req[r].calls = <<>>
     \/ req[r].calls[Len(req[r].calls)] \in
          { <<"IsResolved", "error">>, <<"IsResolved", "true">>,
            <<"GetAllLocations", "error">> }

\* C13: POST /resolve calls ResolveLocation only as its fourth call, after
\* isResolved answered false and the candidate-list fetch succeeded, in that
\* order; an isResolved that fails or answers true and a failed fetch end the
\* request; a request that ended before the write (these three, or a body
\* that does not parse) answers a message and leaves the stored records as
\* they were.
C13_WriteOnlyAfterChecks ==
  \A r \in Reqs :
    Resolve(r) =>
      /\ \A k \in 1..Len(req[r].calls) :
           /\ req[r].calls[k][1] = "ResolveLocation" =>
                /\ k = 4
                /\ req[r].calls[1] = <<"IsResolved", "false">>
                /\ req[r].calls[2] = <<"GetAllLocations", "ok">>
                /\ req[r].calls[3][1] = "GetUser"
           /\ req[r].calls[k] \in { <<"IsResolved", "error">>, <<"IsResolved", "true">>,
                                    <<"GetAllLocations", "error">> } =>
                k = Len(req[r].calls) /\ Done(r)
      /\ req[r].wrote =
           (IF req[r].calls # <<>> /\ req[r].calls[Len(req[r].calls)] = <<"ResolveLocation", "ok">>
            THEN 1 ELSE 0)
      /\ EndedBeforeWrite(r) =>
           /\ req[r].result.type = "text"
           /\ req[r].result.msg \in {ErrUnmarshal, ErrIsResolved, MsgAlreadyChecked,
                                     ErrGetAllLocations}
           /\ req[r].wrote = 0
           /\ db = req[r].recordsAtStart

\* C13 witness: a resolve wrote its record as its fourth call, after the
\* lookup and the fetch.
C13_Witness ==
  \E r \in Reqs :
    /\ Resolve(r) /\ Done(r) /\ req[r].wrote = 1
    /\ Len(req[r].calls) = 4
    /\ Len(db) = Len(req[r].recordsAtStart) + 1

\* C13 witness of the other case: a resolve ended on a failed fetch.
C13_WitnessRejected ==
  \E r \in Reqs :
    EndedBeforeWrite(r) /\ req[r].result.msg = ErrGetAllLocations

\* The resolve request r carries an entryID that matches no candidate of the
\* upstream list.
MatchesNoCandidate(r) ==
  /\ Resolve(r) /\ req[r].body.ID # 0
  /\ \A i \in 1..Len(upstream) : upstream[i].EntryID # req[r].body.ID

\* No call of request r that can end it failed (the outcome of GetUser is
\* not one of them: the handler goes on either way).
NoCallFailed(r) == \A k \in 1..Len(req[r].calls) : req[r].calls[k][2] # "error" \/
                                                    req[r].calls[k][1] = "GetUser"

\* C14: a resolve of an unresolved entryID that matches no upstream
\* candidate is not refused: it finds an empty location and an empty original
\* address, and unless a call fails it stores a record with these, answers
\* "Successfully added!", and the entryID is resolved from then on.
C14_UnknownEntryStillResolved ==
  \A r \in Reqs :
    MatchesNoCandidate(r) =>
      /\ req[r].found = NoFound
      /\ ( /\ Done(r) /\ NoCallFailed(r)
           /\ req[r].calls # <<>> /\ req[r].calls[1] = <<"IsResolved", "false">> ) =>
           /\ req[r].result = TextResult(MsgAdded)
           /\ req[r].wrote = 1
           /\ Len(db) = Len(req[r].recordsAtStart) + 1
           /\ db[Len(db)].EntryID = req[r].body.ID
           /\ db[Len(db)].Location = <<>>
           /\ db[Len(db)].OriginalAddress = <<>>
           /\ db[Len(db)].TweetContents = req[r].body.TweetContents
           /\ IsResolved(db, req[r].body.ID)

\* C14 witness: with candidates upstream, a resolve of an entryID that is
\* none of theirs stored its record and was answered "Successfully added!".
C14_Witness ==
  \E r \in Reqs :
    /\ MatchesNoCandidate(r) /\ Done(r) /\ Len(upstream) > 0
    /\ req[r].result = TextResult(MsgAdded)
    /\ db[Len(db)].EntryID = req[r].body.ID
    /\ db[Len(db)].Location = <<>>

\* The outcomes of the GetUser calls of request r, in order.
GetUserOutcomes(r) ==
  SelectSeq(req[r].calls, LAMBDA c : c[1] = "GetUser")

\* C15: a failed user lookup does not stop a resolve: after GetUser returned
\* an error the request goes on to the write with no sender, and it ends only
\* with the outcome of the write; the sender is set exactly when the lookup
\* succeeded, and the stored record carries that sender.
C15_FailedLookupNeverBlocks ==
  \A r \in Reqs :
    Resolve(r) =>
      /\ Len(GetUserOutcomes(r)) <= 1
      /\ (req[r].sender # <<>>) <=> (GetUserOutcomes(r) = << <<"GetUser", "ok">> >>)
      /\ GetUserOutcomes(r) = << <<"GetUser", "error">> >> =>
           /\ req[r].sender = <<>>
           /\ req[r].pc \in {"write", "done"}
           /\ Done(r) =>
                /\ Len(req[r].calls) > 0
                /\ req[r].calls[Len(req[r].calls)][1] = "ResolveLocation"
                /\ req[r].result \in {TextResult(MsgAdded), TextResult(ErrResolveLocation)}
      /\ (Done(r) /\ req[r].result = TextResult(MsgAdded)) =>
           /\ GetUserOutcomes(r) # <<>>
           /\ db[Len(db)].Sender = req[r].sender

\* C15 witness: a resolve whose user lookup failed stored its record, with no
\* sender, and was answered "Successfully added!".
C15_Witness ==
  \E r \in Reqs :
    /\ Resolve(r) /\ Done(r)
    /\ GetUserOutcomes(r) = << <<"GetUser", "error">> >>
    /\ req[r].result = TextResult(MsgAdded)
    /\ db[Len(db)].EntryID = req[r].body.ID
    /\ db[Len(db)].Sender = <<>>

\* A resolve whose user lookup succeeded stored its record with the sender.
C15_WitnessSender ==
  \E r \in Reqs :
    /\ Resolve(r) /\ Done(r)
    /\ GetUserOutcomes(r) = << <<"GetUser", "ok">> >>
    /\ req[r].result = TextResult(MsgAdded)
    /\ db[Len(db)].Sender # <<>>

====
